---------------------------- MODULE Spec2Model ----------------------------
(***************************************************************************)
(* A model of merramax: MmxRequest (sequential) and MmxRequestCelery       *)
(* (distributed).  A run fetches MERRA rasters, prepares them, draws       *)
(* random predictor subsets (trials), stages one directory per trial,      *)
(* runs MaxEnt in each, averages the permutation importance of each        *)
(* predictor, and reruns MaxEnt on the top ten.                            *)
(*                                                                         *)
(* Files are paths (sequences of names) mapped to contents.  Importance    *)
(* samples are integers of a fixed decimal scale (tenths), and a mean is   *)
(* kept as the pair sum/count and compared exactly.                        *)
(***************************************************************************)
EXTENDS Naturals, Integers, Sequences, FiniteSets, TLC

VARIABLES
    celery,                   \* TRUE: MmxRequestCelery, FALSE: MmxRequest
    numProcs,                 \* the numProcs argument of MmxRequestCelery
    numTrials,                \* self._numTrials
    pc,                       \* the statement of run() the controller is at
    fs,                       \* the file system: path -> content
    images,                   \* run(): images, the prepared master pool
    listOfIndexesInEachTrial, \* run(): the plan
    trials,                   \* run(): trials, the staged Trial tuples
    task,                     \* state of each trial's MaxEnt execution
    topTen,                   \* run(): topTen
    final,                    \* run(): final, the staged final Trial
    err,                      \* the exception that ended the run, or NoError
    hist                      \* observations of the run kept for the properties

vars == <<celery, numProcs, numTrials, pc, fs, images,
          listOfIndexesInEachTrial, trials, task, topTen, final, err, hist>>

-----------------------------------------------------------------------------
(* Bounds and program constants *)

PREDICTORS_PER_TRIAL == 10

\* The default of the numProcs argument of MmxRequestCelery.
DEFAULT_NUM_PROCS == 5

TOP_N == 10

\* The greatest number of trials of a run.
MaxTrials == 2

\* PlanSpec: the greatest number of trials, and the greatest number of
\* images of the pool beyond PREDICTORS_PER_TRIAL.
MaxPlanTrials == 2

MaxPlanExtraImages == 2

-----------------------------------------------------------------------------
(* Small helpers *)

NoError == "NoError"

Min(S) == CHOOSE x \in S : \A y \in S : x <= y

Max(S) == CHOOSE x \in S : \A y \in S : x >= y

\* Body(v), with v computed once, as a value, however often Body uses it.
With(v, Body(_)) == CHOOSE r \in {Body(x) : x \in {v}} : TRUE

RECURSIVE Ascending(_)
Ascending(S) ==
    With(S, LAMBDA x :
        IF x = {} THEN <<>> ELSE <<Min(x)>> \o Ascending(x \ {Min(x)}))

RECURSIVE Descending(_)
Descending(S) ==
    With(S, LAMBDA x :
        IF x = {} THEN <<>> ELSE <<Max(x)>> \o Descending(x \ {Max(x)}))

Range(s) == {s[i] : i \in DOMAIN s}

\* Python's range(a, b) as the set of its elements.
PyRange(a, b) == {i \in a .. (b - 1) : TRUE}

\* str() of the trial numbers the model uses.
Str(n) == <<"1", "2", "3", "4", "5", "6">>[n]

\* The names of the MERRA variables a request can return.
VarName(i) ==
    <<"v01", "v02", "v03", "v04", "v05", "v06", "v07", "v08", "v09", "v10",
      "v11", "v12", "v13", "v14", "v15", "v16">>[i]

-----------------------------------------------------------------------------
(* MmxRequest.getTrialImagesIndexes *)

KSubsets(S, k) == {X \in SUBSET S : Cardinality(X) = k}

\* random.sample(population, k): k distinct elements of the population in a
\* random order.  Every k-subset can be drawn; of the orders a subset can
\* come in, the model keeps two.  (RandomSampleRepeating: a draw with
\* replacement.)
RandomSampleRepeating(population, k) ==
    {Ascending(X) \o <<Min(X)>> : X \in KSubsets(population, k - 1)}

RandomSample(population, k) ==
    {Ascending(X) : X \in KSubsets(population, k)}
        \cup {Descending(X) : X \in KSubsets(population, k)}

\* The population the indexes of a trial are drawn from.
SamplePopulation(n) == PyRange(0, n - 1)

InsufficientImagesLoose(n) == n < PREDICTORS_PER_TRIAL

InsufficientImages(n) == n <= PREDICTORS_PER_TRIAL

\* The values getTrialImagesIndexes can return for a pool of n images and
\* nTrials trials; it raises exactly when InsufficientImages(n).
GetTrialImagesIndexes(n, nTrials) ==
    [1 .. nTrials ->
        RandomSample(SamplePopulation(n), PREDICTORS_PER_TRIAL)]

-----------------------------------------------------------------------------
(* The file system *)

\* The content of a path: a directory, a file of some text, or a CSV file.
Dir == [kind |-> "dir"]

File(text) == [kind |-> "file", text |-> text]

\* A CSV file of a header line and data lines; a column name is the sequence
\* of its words, a cell is a number of tenths.
Csv(header, rows) == [kind |-> "csv", header |-> header, rows |-> rows]

\* A file of no line at all.
EmptyFile == [kind |-> "empty"]

Join(dir, name) == Append(dir, name)

BaseName(path) == path[Len(path)]

Exists(f, path) == path \in DOMAIN f

\* f with path set to content, whether or not path was there.
Put(f, path, content) ==
    [q \in DOMAIN f \cup {path} |-> IF q = path THEN content ELSE f[q]]

\* The paths of f inside directory dir, dir included.
Under(f, dir) ==
    {q \in DOMAIN f : Len(q) >= Len(dir) /\ SubSeq(q, 1, Len(dir)) = dir}

\* A step of a method on the file system: the file system it leaves, the
\* destinations shutil.copyfile wrote, those of them that existed before the
\* write, and the exception raised (NoError: none).
Step(f) == [fs |-> f, writes |-> {}, overwrites |-> {}, err |-> NoError]

\* os.mkdir(path): FileExistsError when path exists.
MkDir(st, path) ==
    IF st.err # NoError THEN st
    ELSE IF Exists(st.fs, path) THEN [st EXCEPT !.err = "FileExistsError"]
    ELSE [st EXCEPT !.fs = Put(st.fs, path, Dir)]

MkDirAlways(st, path) == MkDir(st, path)

\* if not os.path.exists(path): os.mkdir(path)
MkDirIfAbsent(st, path) ==
    IF st.err = NoError /\ ~Exists(st.fs, path) THEN MkDir(st, path) ELSE st

\* shutil.copyfile(src, dst): dst is created or overwritten with the content
\* of src; FileNotFoundError when src does not exist.
CopyFile(st, src, dst) ==
    IF st.err # NoError THEN st
    ELSE IF ~Exists(st.fs, src) \/ st.fs[src] = Dir
         THEN [st EXCEPT !.err = "FileNotFoundError"]
    ELSE [fs         |-> Put(st.fs, dst, st.fs[src]),
          writes     |-> st.writes \cup {dst},
          overwrites |-> st.overwrites \cup
                             (IF Exists(st.fs, dst) THEN {dst} ELSE {}),
          err        |-> NoError]

\* if not os.path.exists(dst): shutil.copyfile(src, dst)
CopyFileIfAbsent(st, src, dst) ==
    IF st.err = NoError /\ ~Exists(st.fs, dst) THEN CopyFile(st, src, dst)
    ELSE st

-----------------------------------------------------------------------------
(* The request: MmxRequest.__init__ *)

OutputDirectory == <<"out">>

AscDir == Join(OutputDirectory, "asc")

MerraDir == Join(OutputDirectory, "merra")

TrialsDir == Join(OutputDirectory, "trials")

\* self._observationFile: the caller's observation file and its species.
ObservationFile == [filePath |-> <<"data", "obs.csv">>, species |-> "sparrow"]

\* MaxEntRequestCelery.MAX_ENT_JAR
MAX_ENT_JAR == <<"lib", "maxent.jar">>

-----------------------------------------------------------------------------
(* MmxRequest.prepareOneTrial, MmxRequestCelery.prepareOneTrial *)

\* TRIAL_DIR.  (TrialDirShared: one directory for all the trials.)
TrialDirShared(trialNum) == Join(TrialsDir, "trial")

TrialDir(trialNum) == Join(TrialsDir, "trial-" \o trialNum)

\* trialPredictors = [images[i] for i in trialImageIndexes]
TrialPredictors(imgs, trialImageIndexes) ==
    With(trialImageIndexes, LAMBDA idxs :
        [j \in 1 .. Len(idxs) |-> imgs[idxs[j] + 1]])

\* for ascGif in trialPredictors: copy it to the trial unless it is there.
RECURSIVE CopyImages(_, _, _, _)
CopyImages(st, trialAscDir, trialPredictors, j) ==
    With(st, LAMBDA x :
        IF j > Len(trialPredictors) THEN x
        ELSE CopyImages(
                 CopyFileIfAbsent(x, trialPredictors[j],
                                  Join(trialAscDir,
                                       BaseName(trialPredictors[j]))),
                 trialAscDir, trialPredictors, j + 1))

\* The value of a Trial variable that holds no Trial.
NoTrial ==
    [directory |-> <<>>, obsFile |-> [filePath |-> <<>>, species |-> ""],
     images |-> <<>>]

\* MmxRequest.prepareOneTrial; trialNum is str(trialNum).  The value is the
\* step on the file system with the Trial tuple returned (NoTrial when an
\* exception is raised).
BasePrepareOneTrial(f, imgs, trialImageIndexes, trialNum) ==
    LET trialDir        == TrialDir(trialNum)
        trialObsPath    == Join(trialDir, BaseName(ObservationFile.filePath))
        trialAscDir     == Join(trialDir, "asc")
        s1 == MkDirIfAbsent(Step(f), trialDir)
        s2 == CopyFile(s1, ObservationFile.filePath, trialObsPath)
        s3 == MkDirIfAbsent(s2, trialAscDir)
    IN  With(TrialPredictors(imgs, trialImageIndexes), LAMBDA trialPredictors :
        With(CopyImages(s3, trialAscDir, trialPredictors, 1), LAMBDA s4 :
            [step  |-> s4,
             trial |-> IF s4.err # NoError THEN NoTrial
                       ELSE [directory |-> trialDir,
                             obsFile   |-> [filePath |-> trialObsPath,
                                            species  |->
                                                ObservationFile.species],
                             images    |-> trialPredictors]]))

\* MmxRequestCelery.prepareOneTrial: the base method, then maxent.jar is
\* copied into the trial directory.  (CeleryPrepareOneTrialNoJar: the
\* base method alone.)
CeleryPrepareOneTrialNoJar(f, imgs, trialImageIndexes, trialNum) ==
    BasePrepareOneTrial(f, imgs, trialImageIndexes, trialNum)

CeleryPrepareOneTrial(f, imgs, trialImageIndexes, trialNum) ==
    With(BasePrepareOneTrial(f, imgs, trialImageIndexes, trialNum),
         LAMBDA base :
        With(IF base.step.err # NoError THEN base.step
             ELSE CopyFile(base.step, MAX_ENT_JAR,
                           Join(base.trial.directory, "maxent.jar")),
             LAMBDA s5 :
            [step  |-> s5,
             trial |-> IF s5.err # NoError THEN NoTrial ELSE base.trial]))

PrepareOneTrial(isCelery, f, imgs, trialImageIndexes, trialNum) ==
    IF isCelery
    THEN CeleryPrepareOneTrial(f, imgs, trialImageIndexes, trialNum)
    ELSE BasePrepareOneTrial(f, imgs, trialImageIndexes, trialNum)

-----------------------------------------------------------------------------
(* MmxRequest._compileContributions *)

CONTRIB_KWD == "permutation"

\* CONTRIB_KWD in key
HasKeyword(key) == \E i \in DOMAIN key : key[i] = CONTRIB_KWD

\* key.split(CONTRIB_KWD)[0].strip(): the words before the keyword.
NewKey(key) ==
    SubSeq(key, 1, Min({i \in DOMAIN key : key[i] = CONTRIB_KWD}) - 1)

\* dict(zip(header, row)) as the list of its (key, value) items in key
\* order: zip stops at the shorter of the two, a key keeps the place of its
\* first occurrence and the value of its last.
RowDict(header, row) ==
    LET m     == IF Len(header) < Len(row) THEN Len(header) ELSE Len(row)
        first == {i \in 1 .. m : \A j \in 1 .. i - 1 : header[j] # header[i]}
        last(i) == Max({j \in 1 .. m : header[j] = header[i]})
    IN  With(Ascending(first), LAMBDA order :
            [n \in 1 .. Len(order) |->
                [key |-> header[order[n]], value |-> row[last(order[n])]]])

\* contributions[newKey].append(value), the key created at the end of the
\* dictionary when it is new.  The dictionary is the list of its items.
AppendSample(contributions, newKey, value) ==
    IF \E n \in DOMAIN contributions : contributions[n].key = newKey
    THEN [n \in DOMAIN contributions |->
             IF contributions[n].key = newKey
             THEN [contributions[n] EXCEPT !.samples = Append(@, value)]
             ELSE contributions[n]]
    ELSE Append(contributions, [key |-> newKey, samples |-> <<value>>])

\* for key in rowDict.keys(): ...
RECURSIVE AddRow(_, _, _)
AddRow(contributions, rowDict, n) ==
    With(contributions, LAMBDA x :
        IF n > Len(rowDict) THEN x
        ELSE AddRow(IF HasKeyword(rowDict[n].key)
                    THEN AppendSample(x, NewKey(rowDict[n].key),
                                      rowDict[n].value)
                    ELSE x,
                    rowDict, n + 1))

\* for row in results: ...
RECURSIVE AddRows(_, _, _, _)
AddRows(contributions, header, rows, r) ==
    With(contributions, LAMBDA x :
        IF r > Len(rows) THEN x
        ELSE AddRows(With(RowDict(header, rows[r]),
                          LAMBDA rowDict : AddRow(x, rowDict, 1)),
                     header, rows, r + 1))

ResultsFile(trial) == Join(trial.directory, "maxentResults.csv")

\* One iteration of the loop over the trials: the results file of the trial
\* is opened (FileNotFoundError when it is missing), its header line is read
\* (RuntimeError naming the file when there is none) and its rows are added.
\* The value: the exception and the file it is about, or the dictionary
\* (none: the Python value None instead of a dictionary).
CompileOneTrial(f, trial, contributions) ==
    LET resultsFile == ResultsFile(trial)
    IN  IF ~Exists(f, resultsFile)
        THEN [err |-> "FileNotFoundError", file |-> resultsFile,
              none |-> FALSE, value |-> <<>>]
        ELSE IF f[resultsFile].kind # "csv"
        THEN [err |-> "RuntimeError", file |-> resultsFile,
              none |-> FALSE, value |-> <<>>]
        ELSE [err   |-> NoError, file |-> resultsFile, none |-> FALSE,
              value |-> AddRows(contributions, f[resultsFile].header,
                                f[resultsFile].rows, 1)]

\* `return contributions` is inside the loop over the trials: the method
\* returns at the end of the first iteration.  With no trial the loop body
\* never runs and the method returns None.
CompileContributions(f, trialList) ==
    IF trialList = <<>>
    THEN [err |-> NoError, file |-> <<>>, none |-> TRUE, value |-> <<>>]
    ELSE CompileOneTrial(f, trialList[1], <<>>)

-----------------------------------------------------------------------------
(* MmxRequest.getTopTen *)

Sum(samples) ==
    LET RECURSIVE SumFrom(_)
        SumFrom(i) == IF i > Len(samples) THEN 0 ELSE samples[i] + SumFrom(i + 1)
    IN  SumFrom(1)

\* averages[key] = float(sum(samples) / max(len(samples), 1)), kept as the
\* fraction sum/n; the dictionary is the list of its items, in key order.
Averages(contributions) ==
    With(contributions, LAMBDA c :
        [i \in DOMAIN c |->
            [key |-> c[i].key,
             sum |-> Sum(c[i].samples),
             n   |-> IF Len(c[i].samples) > 1 THEN Len(c[i].samples) ELSE 1]])

\* a's average is greater than b's.
GreaterAvg(a, b) == a.sum * b.n > b.sum * a.n

\* a goes before b in the sorted list, other things equal.
Before(a, b) == GreaterAvg(a, b)

Remove(s, i) == SubSeq(s, 1, i - 1) \o SubSeq(s, i + 1, Len(s))

\* The item sorted(..., reverse=True) puts first: of the items no other item
\* goes before, the one that comes first in the list (the sort is stable).
FirstOf(items) ==
    Min({i \in DOMAIN items : \A j \in DOMAIN items : ~Before(items[j], items[i])})

\* sorted(averages.items(), key=lambda x: x[1], reverse=True)
RECURSIVE Sorted(_)
Sorted(items) ==
    With(items, LAMBDA x :
        IF x = <<>> THEN <<>>
        ELSE <<x[FirstOf(x)]>> \o Sorted(Remove(x, FirstOf(x))))

\* s[:n]
Take(s, n) ==
    With(s, LAMBDA x : SubSeq(x, 1, IF Len(x) < n THEN Len(x) ELSE n))

SortedAvgs(contributions) == Take(Sorted(Averages(contributions)), TOP_N)

\* A key as the text it is: its words with a blank between.
RECURSIVE KeyText(_)
KeyText(key) ==
    IF key = <<>> THEN ""
    ELSE IF Len(key) = 1 THEN key[1]
    ELSE key[1] \o " " \o KeyText(Tail(key))

\* os.path.join(self._merraDir, k + '.nc')
PredPath(k) == Join(MerraDir, KeyText(k) \o ".nc")

\* getTopTen(trials): the exception it raises, or the list of the images of
\* the ten keys of the greatest averages, with the sorted averages they come
\* from and the dictionary compiled.  None has no keys(): AttributeError.
GetTopTen(f, trialList) ==
    With(CompileContributions(f, trialList), LAMBDA c :
        IF c.err # NoError
        THEN [err |-> c.err, file |-> c.file, value |-> <<>>,
              contributions |-> <<>>, ranking |-> <<>>]
        ELSE IF c.none
        THEN [err |-> "AttributeError", file |-> <<>>, value |-> <<>>,
              contributions |-> <<>>, ranking |-> <<>>]
        ELSE With(SortedAvgs(c.value), LAMBDA sortedAvgs :
                 [err     |-> NoError,
                  file    |-> <<>>,
                  value   |-> [i \in DOMAIN sortedAvgs |->
                                  PredPath(sortedAvgs[i].key)],
                  contributions |-> c.value,
                  ranking |-> sortedAvgs]))

-----------------------------------------------------------------------------
(* The collaborators: MerraRequest, MaxEntRequest, MaxEntRequestCelery *)

\* The MERRA file and the prepared image of variable i.
MerraFile(i) == Join(MerraDir, VarName(i) \o ".nc")

AscFile(i) == Join(AscDir, VarName(i) \o ".asc")

\* The variable a file is of: its base name without the extension.
VarOf(path) ==
    VarName(CHOOSE i \in 1 .. 16 :
                BaseName(path) \in {VarName(i) \o ".nc", VarName(i) \o ".asc"})

VarIndex(path) ==
    CHOOSE i \in 1 .. 16 :
        BaseName(path) \in {VarName(i) \o ".nc", VarName(i) \o ".asc"}

\* The permutation importance MaxEnt reports for a predictor, one of the
\* scorings the model draws from: all different, or with ties.
Scorings == {"spread", "ties"}

Importance(scoring, path) ==
    IF scoring = "spread" THEN (VarIndex(path) * 7) % 11
    ELSE (VarIndex(path) % 2) * 5

\* maxentResults.csv as MaxEnt writes it for predictors imgs: a species
\* column, then for each predictor its contribution and its permutation
\* importance; one data row.
ResultsOf(imgs, scoring) ==
    Csv(<<<<"Species">>>> \o
            [c \in 1 .. 2 * Len(imgs) |->
                IF c % 2 = 1
                THEN <<VarOf(imgs[(c + 1) \div 2]), "contribution">>
                ELSE <<VarOf(imgs[c \div 2]), "permutation", "importance">>],
        << <<0>> \o
            [c \in 1 .. 2 * Len(imgs) |->
                IF c % 2 = 1 THEN 1
                ELSE Importance(scoring, imgs[c \div 2])] >>)

\* What a MaxEnt run can do: write its results, raise an exception, or
\* return without having written results.
FitOutcomes == {"spread", "ties", "raise", "silent"}

\* The file system after a MaxEnt run on trial with the given outcome.
AfterFit(f, trial, outcome) ==
    IF outcome \in Scorings
    THEN Put(f, ResultsFile(trial), ResultsOf(trial.images, outcome))
    ELSE f

-----------------------------------------------------------------------------
(* MmxRequest.run, MmxRequest.runTrials, MmxRequestCelery.runTrials *)

\* What the output directory can be when the request is constructed.
OutputKinds == {"directory", "missing", "file"}

\* The file system before the request is constructed.
InitialFs(outputKind) ==
    LET base == [q \in {ObservationFile.filePath, MAX_ENT_JAR} |->
                    IF q = MAX_ENT_JAR THEN File("jar") ELSE File("obs")]
    IN  IF outputKind = "directory" THEN Put(base, OutputDirectory, Dir)
        ELSE IF outputKind = "file" THEN Put(base, OutputDirectory, File("x"))
        ELSE base

\* The sizes of the image pool a MERRA request returns in a whole run: the
\* smallest pool getTrialImagesIndexes accepts, and the two below it.
\* (PlanSpec applies getTrialImagesIndexes to greater pools.)
PoolSizes ==
    {PREDICTORS_PER_TRIAL - 1, PREDICTORS_PER_TRIAL, PREDICTORS_PER_TRIAL + 1}

\* What the properties need of the past of a run: the trial directories
\* MaxEnt was started in, the files staging wrote over, the results files
\* getTopTen opened, the dictionary of contributions and the sorted
\* averages getTopTen computed, the maxent.jar each _runOneTrial task was
\* started with, and the trials in the order their MaxEnt runs ended.
NoHistory ==
    [fits |-> {}, overwrites |-> {}, read |-> {}, contributions |-> <<>>,
     ranking |-> <<>>, jars |-> {}, order |-> <<>>]

\* The numProcs a request can be constructed with: MmxRequestCelery takes
\* the argument (the default, or a width of one), MmxRequest has none.
NumProcsOf(isCelery) ==
    IF isCelery THEN {1, DEFAULT_NUM_PROCS} ELSE {DEFAULT_NUM_PROCS}

Init ==
    /\ celery \in BOOLEAN
    /\ numProcs \in NumProcsOf(celery)
    /\ numTrials \in 0 .. MaxTrials
    /\ pc = "init"
    /\ fs \in {InitialFs(k) : k \in OutputKinds}
    /\ images = <<>>
    /\ listOfIndexesInEachTrial = <<>>
    /\ trials = <<>>
    /\ task = <<>>
    /\ topTen = <<>>
    /\ final = NoTrial
    /\ err = NoError
    /\ hist = NoHistory

\* The run ends with exception e.
Abort(e) == pc' = "aborted" /\ err' = e

\* __init__: the output directory must exist and be a directory; asc, merra
\* and trials are made in it unless they are there.
\* The exception __init__ raises for the output directory: when it does not
\* exist, `raise RuntimeError(...) + ' does not exist.'` adds a string to an
\* exception, which is a TypeError; when it is no directory, RuntimeError.
\* (OutputDirectoryUnchecked: no check.)
OutputDirectoryUnchecked(f) == NoError

OutputDirectoryError(f) ==
    IF ~Exists(f, OutputDirectory) THEN "TypeError"
    ELSE IF f[OutputDirectory] # Dir THEN "RuntimeError"
    ELSE NoError

Construct ==
    /\ pc = "init"
    /\ IF OutputDirectoryError(fs) # NoError
       THEN Abort(OutputDirectoryError(fs)) /\ fs' = fs
       ELSE /\ fs' = MkDirIfAbsent(MkDirIfAbsent(MkDirIfAbsent(
                         Step(fs), AscDir), MerraDir), TrialsDir).fs
            /\ pc' = "getMerra"
            /\ err' = err
    /\ UNCHANGED <<celery, numProcs, numTrials, images, listOfIndexesInEachTrial,
                   trials, task, topTen, final, hist>>

\* merraImages = self._getMerra(): the MERRA files of the request are put
\* in the merra directory.
RECURSIVE PutAll(_, _, _)
PutAll(f, paths, content) ==
    With(<<f, paths>>, LAMBDA x :
        IF x[2] = {} THEN x[1]
        ELSE LET q == CHOOSE y \in x[2] : TRUE
             IN  PutAll(Put(x[1], q, content), x[2] \ {q}, content))

GetMerra ==
    /\ pc = "getMerra"
    /\ \E n \in PoolSizes :
          /\ fs' = PutAll(fs, {MerraFile(i) : i \in 1 .. n}, File("nc"))
          /\ images' = [i \in 1 .. n |-> MerraFile(i)]
    /\ pc' = "prepareImages"
    /\ UNCHANGED <<celery, numProcs, numTrials, listOfIndexesInEachTrial, trials, task,
                   topTen, final, err, hist>>

\* images = self._prepareImages(merraImages): one prepared image in the asc
\* directory for each MERRA file, in the order of the MERRA files.
PrepareImages ==
    /\ pc = "prepareImages"
    /\ fs' = PutAll(fs, {AscFile(i) : i \in 1 .. Len(images)}, File("asc"))
    /\ images' = [i \in 1 .. Len(images) |-> AscFile(i)]
    /\ pc' = "getTrialImagesIndexes"
    /\ UNCHANGED <<celery, numProcs, numTrials, listOfIndexesInEachTrial, trials, task,
                   topTen, final, err, hist>>

\* Where run() is once k trials of a plan of n are staged: in the loop that
\* prepares the trials until all are, then at runTrials, which has nothing
\* to do when there is no trial.  (AfterStagingOne: the loop left after its
\* first iteration.)
AfterStagingOne(k, n) ==
    IF k = 0 /\ n > 0 THEN "prepareOneTrial"
    ELSE IF n = 0 THEN "getTopTen" ELSE "runTrials"

AfterStaging(k, n) ==
    IF k < n THEN "prepareOneTrial"
    ELSE IF n = 0 THEN "getTopTen" ELSE "runTrials"

\* listOfIndexesInEachTrial = self.getTrialImagesIndexes(images)
Plan ==
    /\ pc = "getTrialImagesIndexes"
    /\ IF InsufficientImages(Len(images))
       THEN /\ Abort("RuntimeError: insufficient images")
            /\ UNCHANGED listOfIndexesInEachTrial
       ELSE IF Cardinality(SamplePopulation(Len(images)))
                   < PREDICTORS_PER_TRIAL
       THEN /\ Abort("ValueError")
            /\ UNCHANGED listOfIndexesInEachTrial
       ELSE /\ listOfIndexesInEachTrial'
                   \in GetTrialImagesIndexes(Len(images), numTrials)
            /\ pc' = AfterStaging(0, numTrials)
            /\ err' = err
    /\ UNCHANGED <<celery, numProcs, numTrials, fs, images, trials, task, topTen,
                   final, hist>>

\* One iteration of the loop that prepares the trials.
PrepareNextTrial ==
    /\ pc = "prepareOneTrial"
    /\ LET k == Len(trials) + 1
       IN  \E r \in {PrepareOneTrial(celery, fs, images,
                                     listOfIndexesInEachTrial[k], Str(k))} :
           /\ fs' = r.step.fs
           /\ hist' = [hist EXCEPT !.overwrites = @ \cup r.step.overwrites]
           /\ IF r.step.err # NoError
              THEN Abort(r.step.err) /\ UNCHANGED <<trials, task>>
              ELSE /\ trials' = Append(trials, r.trial)
                   /\ task' = Append(task, "none")
                   /\ pc' = AfterStaging(k, Len(listOfIndexesInEachTrial))
                   /\ err' = err
    /\ UNCHANGED <<celery, numProcs, numTrials, images, listOfIndexesInEachTrial,
                   topTen, final>>

\* The trial runTrials of MmxRequest is at: the first not yet run.
NextToRun == Min({i \in DOMAIN task : task[i] = "none"})

\* MmxRequest.runTrials: one iteration of its loop, mer.run() on one trial.
RunNextTrial ==
    /\ pc = "runTrials"
    /\ ~celery
    /\ \E j \in DOMAIN task : task[j] = "none"
    /\ LET i == NextToRun
       IN  \E outcome \in FitOutcomes :
              /\ hist' = [hist EXCEPT !.fits = @ \cup {trials[i].directory},
                                      !.order = Append(@, i)]
              /\ fs' = AfterFit(fs, trials[i], outcome)
              /\ IF outcome = "raise"
                 THEN /\ task' = [task EXCEPT ![i] = "failure"]
                      /\ Abort("MaxEntError")
                 ELSE /\ task' = [task EXCEPT ![i] = "success"]
                      /\ pc' = IF i = Len(trials) THEN "getTopTen" ELSE pc
                      /\ err' = err
    /\ UNCHANGED <<celery, numProcs, numTrials, images, listOfIndexesInEachTrial,
                   trials, topTen, final>>

\* MmxRequestCelery.runTrials: wpi.apply_async() sends one _runOneTrial task
\* per trial to the workers.
ApplyAsync ==
    /\ pc = "runTrials"
    /\ celery
    /\ task' = [i \in DOMAIN task |-> "pending"]
    /\ pc' = "get"
    /\ UNCHANGED <<celery, numProcs, numTrials, fs, images, listOfIndexesInEachTrial,
                   trials, topTen, final, err, hist>>

\* The jar _runOneTrial runs: os.path.join(trial.directory, 'maxent.jar')
\* (MaxEntJarShared: the one jar of the installation.)
MaxEntJarShared(trial) == MAX_ENT_JAR

MaxEntJarOf(trial) == Join(trial.directory, "maxent.jar")

\* A worker takes task i: _runOneTrial starts MaxEnt in the trial directory,
\* with the jar of the trial.  The width of the worker pool is an option of
\* the Celery worker; nothing in the request sets it.
WorkerStart(i) ==
    /\ task[i] = "pending"
    /\ task' = [task EXCEPT ![i] = "running"]
    /\ hist' = [hist EXCEPT
                   !.fits = @ \cup {trials[i].directory},
                   !.jars = @ \cup {[directory |-> trials[i].directory,
                                     jar       |-> MaxEntJarOf(trials[i])]}]
    /\ UNCHANGED <<celery, numProcs, numTrials, pc, fs, images,
                   listOfIndexesInEachTrial, trials, topTen, final, err>>

\* The MaxEnt run of task i ends.
WorkerFinish(i) ==
    /\ task[i] = "running"
    /\ \E outcome \in FitOutcomes :
          /\ fs' = AfterFit(fs, trials[i], outcome)
          /\ task' = [task EXCEPT
                         ![i] = IF outcome = "raise" THEN "failure"
                                ELSE "success"]
    /\ hist' = [hist EXCEPT !.order = Append(@, i)]
    /\ UNCHANGED <<celery, numProcs, numTrials, pc, images,
                   listOfIndexesInEachTrial, trials, topTen, final, err>>

\* asyncResults.get() can return: every task of the group has succeeded.
\* (GetReturnsEarly: some task of the group has.)
GetReturnsEarly == \E i \in DOMAIN task : task[i] = "success"

GetReturns == \A i \in DOMAIN task : task[i] = "success"

\* asyncResults.get() can raise: it re-raises the exception of a failed task
\* as soon as it sees it, whatever the other tasks of the group are doing.
GetRaises == \E i \in DOMAIN task : task[i] = "failure"

\* asyncResults.get()
Get ==
    /\ pc = "get"
    /\ \/ GetReturns /\ pc' = "getTopTen" /\ err' = err
       \/ GetRaises /\ Abort("MaxEntError")
    /\ UNCHANGED <<celery, numProcs, numTrials, fs, images, listOfIndexesInEachTrial,
                   trials, task, topTen, final, hist>>

\* The results files getTopTen opens: the one of the first trial.
FilesRead(trialList) ==
    IF trialList = <<>> THEN {} ELSE {ResultsFile(trialList[1])}

\* The list run() gives getTopTen: trials, in the order they were staged.
\* (TrialsAsCompleted: in the order their MaxEnt runs ended.)
TrialsAsCompleted ==
    [k \in DOMAIN hist.order |-> trials[hist.order[k]]]

TrialsAggregated == trials

\* topTen = self.getTopTen(trials)
TopTen ==
    /\ pc = "getTopTen"
    /\ \E r \in {GetTopTen(fs, TrialsAggregated)} :
           /\ hist' = [hist EXCEPT !.read = FilesRead(TrialsAggregated),
                                   !.contributions = r.contributions,
                                   !.ranking = r.ranking]
           /\ topTen' = r.value
           /\ IF r.err # NoError THEN Abort(r.err)
              ELSE pc' = "prepareFinal" /\ err' = err
    /\ UNCHANGED <<celery, numProcs, numTrials, fs, images, listOfIndexesInEachTrial,
                   trials, task, final>>

\* The indexes run() passes for the final trial.
FinalIndexes(n) == Ascending(PyRange(0, n - 1))

\* final = self.prepareOneTrial(topTen, range(0, len(topTen) - 1), 'final')
PrepareFinal ==
    /\ pc = "prepareFinal"
    /\ \E r \in {PrepareOneTrial(celery, fs, topTen,
                                  FinalIndexes(Len(topTen)), "final")} :
           /\ fs' = r.step.fs
           /\ hist' = [hist EXCEPT !.overwrites = @ \cup r.step.overwrites]
           /\ final' = r.trial
           /\ IF r.step.err # NoError THEN Abort(r.step.err)
              ELSE pc' = "runFinal" /\ err' = err
    /\ UNCHANGED <<celery, numProcs, numTrials, images, listOfIndexesInEachTrial,
                   trials, task, topTen>>

\* finalMer.run()
RunFinal ==
    /\ pc = "runFinal"
    /\ \E outcome \in FitOutcomes :
          /\ hist' = [hist EXCEPT !.fits = @ \cup {final.directory}]
          /\ fs' = AfterFit(fs, final, outcome)
          /\ IF outcome = "raise" THEN Abort("MaxEntError")
             ELSE pc' = "done" /\ err' = err
    /\ UNCHANGED <<celery, numProcs, numTrials, images, listOfIndexesInEachTrial,
                   trials, task, topTen, final>>

Next ==
    \/ Construct
    \/ GetMerra
    \/ PrepareImages
    \/ Plan
    \/ PrepareNextTrial
    \/ RunNextTrial
    \/ ApplyAsync
    \/ \E i \in DOMAIN task : WorkerStart(i)
    \/ \E i \in DOMAIN task : WorkerFinish(i)
    \/ Get
    \/ TopTen
    \/ PrepareFinal
    \/ RunFinal

Spec == Init /\ [][Next]_vars

\* The steps of the controller, the process that executes run().
ControllerStep ==
    \/ Construct
    \/ GetMerra
    \/ PrepareImages
    \/ Plan
    \/ PrepareNextTrial
    \/ RunNextTrial
    \/ ApplyAsync
    \/ Get
    \/ TopTen
    \/ PrepareFinal
    \/ RunFinal

\* The steps of the Celery workers on the task of trial i.
WorkerStep(i) == i \in DOMAIN task /\ (WorkerStart(i) \/ WorkerFinish(i))

\* LiveSpec: the run with its scheduling.  The controller is a sequential
\* process that executes its next statement whenever it can; the Celery
\* workers take every task sent to them and every MaxEnt run they start
\* comes to an end.
LiveSpec ==
    /\ Init
    /\ [][Next]_vars
    /\ WF_vars(ControllerStep)
    /\ \A i \in 1 .. MaxTrials : WF_vars(WorkerStep(i))

-----------------------------------------------------------------------------
(* PlanSpec: getTrialImagesIndexes applied to pools of many sizes *)

PlanPoolSizes ==
    PREDICTORS_PER_TRIAL - 1 .. PREDICTORS_PER_TRIAL + MaxPlanExtraImages

PlanInit ==
    /\ celery = FALSE
    /\ numProcs = DEFAULT_NUM_PROCS
    /\ numTrials \in 0 .. MaxPlanTrials
    /\ pc = "getTrialImagesIndexes"
    /\ fs = InitialFs("directory")
    /\ \E n \in PlanPoolSizes : images = [i \in 1 .. n |-> AscFile(i)]
    /\ listOfIndexesInEachTrial = <<>>
    /\ trials = <<>>
    /\ task = <<>>
    /\ topTen = <<>>
    /\ final = NoTrial
    /\ err = NoError
    /\ hist = NoHistory

PlanSpec == PlanInit /\ [][Plan]_vars

-----------------------------------------------------------------------------
(* AggSpec: getTopTen applied to lists of trials with results of many kinds *)

\* The greatest number of trials getTopTen is applied to.
MaxAggTrials == 2

ImportanceColumn(i) == <<VarName(i), "permutation", "importance">>

\* The results files the trials are drawn from; "missing": no file.
AggResults ==
    {"a2", "a8", "ab", "bc", "fifteen", "norows", "empty", "missing"}

AggResultsFile(kind) ==
    CASE kind = "a2" ->
            Csv(<<<<"Species">>, ImportanceColumn(1)>>, << <<0, 2>> >>)
      [] kind = "a8" ->
            Csv(<<<<"Species">>, ImportanceColumn(1)>>, << <<0, 8>> >>)
      [] kind = "ab" ->
            Csv(<<<<"Species">>, ImportanceColumn(1), <<VarName(2), "contribution">>,
                  ImportanceColumn(2)>>,
                << <<0, 2, 1, 5>>, <<0, 4, 1, 5>> >>)
      [] kind = "bc" ->
            Csv(<<<<"Species">>, ImportanceColumn(2), ImportanceColumn(3)>>,
                << <<0, 5, 5>> >>)
      [] kind = "fifteen" ->
            Csv([c \in 1 .. 15 |-> ImportanceColumn(c)],
                << [c \in 1 .. 15 |-> (c * 7) % 17] >>)
      [] kind = "norows" ->
            Csv(<<<<"Species">>, ImportanceColumn(1)>>, <<>>)
      [] OTHER -> EmptyFile

\* A trial of the given number with no image: getTopTen reads its directory.
AggTrial(i) ==
    [directory |-> TrialDir(Str(i)),
     obsFile   |-> [filePath |-> Join(TrialDir(Str(i)),
                                      BaseName(ObservationFile.filePath)),
                    species  |-> ObservationFile.species],
     images    |-> <<>>]

\* The file system with the results files of kinds[1], kinds[2], ...
RECURSIVE AggFs(_, _)
AggFs(kinds, i) ==
    IF i = 0 THEN Put(InitialFs("directory"), TrialsDir, Dir)
    ELSE LET f == Put(AggFs(kinds, i - 1), TrialDir(Str(i)), Dir)
         IN  IF kinds[i] = "missing" THEN f
             ELSE Put(f, ResultsFile(AggTrial(i)), AggResultsFile(kinds[i]))

AggInit ==
    /\ celery = FALSE
    /\ numProcs = DEFAULT_NUM_PROCS
    /\ numTrials \in 0 .. MaxAggTrials
    /\ pc = "getTopTen"
    /\ \E kinds \in [1 .. numTrials -> AggResults] :
          /\ fs = AggFs(kinds, numTrials)
          /\ hist = [NoHistory EXCEPT
                        !.fits = {TrialDir(Str(i)) : i \in 1 .. numTrials}]
    /\ images = <<>>
    /\ listOfIndexesInEachTrial = <<>>
    /\ trials = [i \in 1 .. numTrials |-> AggTrial(i)]
    /\ task = [i \in 1 .. numTrials |-> "success"]
    /\ topTen = <<>>
    /\ final = NoTrial
    /\ err = NoError

AggSpec == AggInit /\ [][TopTen]_vars

-----------------------------------------------------------------------------
(* StageSpec: prepareOneTrial called twice on trial directories left in     *)
(* many states by an earlier run                                            *)

\* The file system of a request with its pool of images prepared.
PreparedFs(n) ==
    LET made == MkDirIfAbsent(MkDirIfAbsent(MkDirIfAbsent(
                    Step(InitialFs("directory")), AscDir), MerraDir),
                    TrialsDir).fs
    IN  PutAll(PutAll(made, {MerraFile(i) : i \in 1 .. n}, File("nc")),
               {AscFile(i) : i \in 1 .. n}, File("asc"))

\* What an earlier run can have left of a trial: nothing or its directory;
\* in it no copy of the observations, a copy of them as they are or as they
\* were; no asc directory, an empty one or one with an old copy of the
\* first image; no maxent.jar or an old one.
StageLeftovers ==
    {[dir |-> FALSE, obs |-> "none", asc |-> "none", jar |-> "none"]}
        \cup [dir : {TRUE}, obs : {"none", "same", "old"},
              asc : {"none", "empty", "old image"}, jar : {"none", "old"}]

\* f with the leftovers of trial trialNum.
WithLeftovers(f, trialNum, left) ==
    LET d  == TrialDir(trialNum)
        f1 == IF left.dir THEN Put(f, d, Dir) ELSE f
        f2 == IF left.obs = "none" THEN f1
              ELSE Put(f1, Join(d, BaseName(ObservationFile.filePath)),
                       IF left.obs = "same" THEN File("obs")
                       ELSE File("old obs"))
        f3 == IF left.asc = "none" THEN f2 ELSE Put(f2, Join(d, "asc"), Dir)
        f4 == IF left.asc = "old image"
              THEN Put(f3, Join(Join(d, "asc"), BaseName(AscFile(1))),
                       File("old asc"))
              ELSE f3
    IN  IF left.jar = "old" THEN Put(f4, Join(d, "maxent.jar"), File("old jar"))
        ELSE f4

\* The trial numbers and the lists of indexes prepareOneTrial is called on.
StageTrialNums == {"1", "final"}

StageIndexes ==
    {Ascending(PyRange(0, PREDICTORS_PER_TRIAL)),
     Descending(PyRange(0, PREDICTORS_PER_TRIAL)),
     <<1, 0>>, <<>>}

\* The history of StageSpec: NoHistory, with the trial number of the calls,
\* the file system before the last call and after the first, and what the
\* last call wrote.
StageInit ==
    /\ celery \in BOOLEAN
    /\ numProcs = DEFAULT_NUM_PROCS
    /\ numTrials = 1
    /\ pc = "stage1"
    /\ images = [i \in 1 .. PREDICTORS_PER_TRIAL + 1 |-> AscFile(i)]
    /\ \E trialNum \in StageTrialNums, left \in StageLeftovers :
          /\ fs = WithLeftovers(PreparedFs(Len(images)), trialNum, left)
          /\ hist = [fits |-> {}, overwrites |-> {}, read |-> {},
                     contributions |-> <<>>, ranking |-> <<>>,
                     jars |-> {}, order |-> <<>>,
                     trialNum |-> trialNum, before |-> fs, first |-> fs,
                     writes |-> {}]
    /\ \E idxs \in StageIndexes : listOfIndexesInEachTrial = <<idxs>>
    /\ trials = <<>>
    /\ task = <<>>
    /\ topTen = <<>>
    /\ final = NoTrial
    /\ err = NoError

\* One call of prepareOneTrial on the trial number and indexes of the run.
StageCall(isFirst) ==
    \E r \in {PrepareOneTrial(celery, fs, images,
                              listOfIndexesInEachTrial[1], hist.trialNum)} :
        /\ fs' = r.step.fs
        /\ trials' = Append(trials, r.trial)
        /\ err' = r.step.err
        /\ hist' = [hist EXCEPT !.before = fs,
                                !.first = IF isFirst THEN r.step.fs ELSE @,
                                !.writes = r.step.writes,
                                !.overwrites = r.step.overwrites]

StageFirst ==
    /\ pc = "stage1"
    /\ StageCall(TRUE)
    /\ pc' = "stage2"
    /\ UNCHANGED <<celery, numProcs, numTrials, images, listOfIndexesInEachTrial, task,
                   topTen, final>>

StageSecond ==
    /\ pc = "stage2"
    /\ err = NoError
    /\ StageCall(FALSE)
    /\ pc' = "staged"
    /\ UNCHANGED <<celery, numProcs, numTrials, images, listOfIndexesInEachTrial, task,
                   topTen, final>>

StageSpec == StageInit /\ [][StageFirst \/ StageSecond]_vars

-----------------------------------------------------------------------------
(* The properties *)

\* The dictionary of contributions of all the trials: the loop of
\* _compileContributions run over every trial before it returns.
RECURSIVE CompileEveryTrial(_, _, _, _)
CompileEveryTrial(f, trialList, t, contributions) ==
    IF t > Len(trialList)
    THEN [err |-> NoError, file |-> <<>>, none |-> FALSE,
          value |-> contributions]
    ELSE LET one == CompileOneTrial(f, trialList[t], contributions)
         IN  IF one.err # NoError THEN one
             ELSE CompileEveryTrial(f, trialList, t + 1, one.value)

AllTrials == CompileEveryTrial(fs, trials, 1, <<>>)

\* getTopTen has returned a list for trials whose results can all be read.
Aggregated == pc = "prepareFinal" /\ AllTrials.err = NoError

\* C1: aggregation combines the samples of all the trials: the dictionary
\* getTopTen averages has, for every predictor with a permutation importance
\* column in some trial, the samples of every row of every such trial, and
\* the average of the predictor is their sum divided by their number.
C1_AllTrialsCombined ==
    Aggregated =>
        /\ hist.contributions = AllTrials.value
        /\ \A i \in DOMAIN hist.ranking :
              \E j \in DOMAIN AllTrials.value :
                 /\ AllTrials.value[j].key = hist.ranking[i].key
                 /\ hist.ranking[i].sum = Sum(AllTrials.value[j].samples)
                 /\ hist.ranking[i].n = Len(AllTrials.value[j].samples)

\* The place of key k in the list of items.
PlaceOf(items, k) == Min({i \in DOMAIN items : items[i].key = k})

\* r ranks the averages avgs: it holds the top ones of them, at most TOP_N,
\* in descending order of average, equal averages in the order of avgs.
IsRankingOf(r, avgs) ==
    /\ Len(r) = (IF Len(avgs) < TOP_N THEN Len(avgs) ELSE TOP_N)
    /\ \A i \in DOMAIN r : \E j \in DOMAIN avgs : avgs[j] = r[i]
    /\ \A i, j \in DOMAIN r :
          i < j =>
              \/ GreaterAvg(r[i], r[j])
              \/ /\ ~GreaterAvg(r[j], r[i])
                 /\ PlaceOf(avgs, r[i].key) < PlaceOf(avgs, r[j].key)
    /\ \A j \in DOMAIN avgs :
          (\A i \in DOMAIN r : r[i].key # avgs[j].key) =>
              \A i \in DOMAIN r :
                 \/ GreaterAvg(r[i], avgs[j])
                 \/ /\ ~GreaterAvg(avgs[j], r[i])
                    /\ PlaceOf(avgs, r[i].key) < j

\* C3: the ranking aggregation returns lists the predictors in descending
\* order of their mean score over the trials, equal means in key order, and
\* holds min(10, number of predictors with a sample) of them, the highest.
C3_RankingOfAllPredictors ==
    Aggregated => IsRankingOf(hist.ranking, Averages(AllTrials.value))

\* The files staged in the asc directory of a trial directory.
StagedImages(f, directory) ==
    {q \in DOMAIN f : /\ Len(q) = Len(directory) + 2
                      /\ SubSeq(q, 1, Len(directory) + 1)
                             = Join(directory, "asc")}

\* C2: the final trial is staged with every predictor of the ranking: it
\* holds as many images as the ranking has entries, and as many files are
\* staged in its directory.
C2_FinalTrialHasWholeRanking ==
    (pc \in {"runFinal", "done"} /\ Len(hist.ranking) >= 1) =>
        /\ Len(final.images) = Len(hist.ranking)
        /\ Cardinality(StagedImages(fs, final.directory)) = Len(hist.ranking)

\* getTrialImagesIndexes has been called on the pool.
PlanCalled ==
    /\ images # <<>>
    /\ pc \notin {"init", "getMerra", "prepareImages", "getTrialImagesIndexes"}

InsufficientError == "RuntimeError: insufficient images"

\* C4: planning fails with the insufficient-images error for every pool of
\* at most PREDICTORS_PER_TRIAL images, before any trial directory is made
\* and any MaxEnt run is started, and does not fail for a pool of one more.
C4_PoolGuard ==
    /\ (PlanCalled /\ Len(images) <= PREDICTORS_PER_TRIAL) =>
          /\ pc = "aborted"
          /\ err = InsufficientError
          /\ listOfIndexesInEachTrial = <<>>
          /\ Under(fs, TrialsDir) = {TrialsDir}
          /\ hist.fits = {}
    /\ (PlanCalled /\ Len(images) = PREDICTORS_PER_TRIAL + 1) =>
          /\ err \notin {InsufficientError, "ValueError"}
          /\ Len(listOfIndexesInEachTrial) = numTrials

C4_Witness ==
    /\ pc = "aborted"
    /\ err = InsufficientError
    /\ Len(images) = PREDICTORS_PER_TRIAL

\* getTrialImagesIndexes has returned a plan.
Planned == pc \notin {"getTrialImagesIndexes", "aborted"}

\* C5: a plan has numTrials lists of indexes, each of PREDICTORS_PER_TRIAL
\* pairwise distinct indexes of the pool.
C5_PlanShape ==
    Planned =>
        /\ Len(images) > PREDICTORS_PER_TRIAL
        /\ Len(listOfIndexesInEachTrial) = numTrials
        /\ \A t \in DOMAIN listOfIndexesInEachTrial :
              LET idxs == listOfIndexesInEachTrial[t]
              IN  /\ Len(idxs) = PREDICTORS_PER_TRIAL
                  /\ \A i, j \in DOMAIN idxs : i # j => idxs[i] # idxs[j]
                  /\ \A i \in DOMAIN idxs :
                        idxs[i] >= 0 /\ idxs[i] < Len(images)

C5_Witness ==
    /\ Planned
    /\ numTrials = 2
    /\ Len(images) = PREDICTORS_PER_TRIAL + 2
    /\ Range(listOfIndexesInEachTrial[1]) # Range(listOfIndexesInEachTrial[2])
    /\ listOfIndexesInEachTrial[1][1] > listOfIndexesInEachTrial[1][2]

\* C6: the indexes of a trial are drawn from the whole pool: whenever
\* getTrialImagesIndexes is called on a sufficient pool for some trials,
\* every index of the pool is in some trial of some plan it can return, and
\* it can return a plan with an index in two trials.
C6_WholePoolDrawn ==
    (/\ pc = "getTrialImagesIndexes"
     /\ ~InsufficientImages(Len(images))
     /\ numTrials >= 1) =>
        LET plans == GetTrialImagesIndexes(Len(images), numTrials)
        IN  /\ \A i \in 0 .. Len(images) - 1 :
                  \E plan \in plans : \E t \in DOMAIN plan : i \in Range(plan[t])
            /\ numTrials >= 2 =>
                  \E plan \in plans : \E t, u \in DOMAIN plan :
                     t # u /\ Range(plan[t]) \cap Range(plan[u]) # {}

\* prepareOneTrial has been called twice on the same trial.
StagedTwice == pc = "staged"

\* C7: staging is idempotent: a second call of prepareOneTrial with the
\* trial number and images of the first raises no exception and leaves the
\* files and their contents as the first call left them.
C7_StagingIdempotent ==
    StagedTwice => err = NoError /\ fs = hist.first

C7_Witness ==
    /\ StagedTwice
    /\ celery
    /\ Len(trials[2].images) = PREDICTORS_PER_TRIAL
    /\ hist.trialNum = "1"
    /\ hist.overwrites # {}

\* C8: staging never overwrites an existing file: a call of prepareOneTrial
\* writes no file that was there before the call.
C8_NoOverwrite ==
    pc \in {"stage2", "staged"} =>
        /\ hist.overwrites = {}
        /\ hist.writes \cap DOMAIN hist.before = {}

\* The place of a statement of run() in the order of the states: Fetching,
\* Preparing, Planning, Staging, Executing, Aggregating and SelectingTop
\* (both in getTopTen), RetrainingFinal, Done; an aborted run is at the end.
Rank(at) ==
    CASE at = "init" -> 0
      [] at = "getMerra" -> 1
      [] at = "prepareImages" -> 2
      [] at = "getTrialImagesIndexes" -> 3
      [] at = "prepareOneTrial" -> 4
      [] at \in {"runTrials", "get"} -> 5
      [] at = "getTopTen" -> 6
      [] at \in {"prepareFinal", "runFinal"} -> 7
      [] at = "done" -> 8
      [] OTHER -> 9

\* A trial directory exists.
SomeTrialStaged == Cardinality(Under(fs, TrialsDir)) > 1

\* C9 in a state: a trial is staged only once the whole plan is made; MaxEnt
\* is started on a trial only once all the trials are staged; aggregation
\* starts only once every trial has run; the final MaxEnt run starts only
\* once the ranking is selected.
C9_Barriers ==
    /\ SomeTrialStaged =>
          Rank(pc) >= 4 /\ Len(listOfIndexesInEachTrial) = numTrials
    /\ hist.fits # {} =>
          /\ Rank(pc) >= 5
          /\ Len(trials) = numTrials
          /\ \A i \in 1 .. numTrials : Exists(fs, TrialDir(Str(i)))
    /\ (pc = "getTopTen" \/ hist.read # {}) =>
          /\ Len(trials) = numTrials
          /\ \A i \in DOMAIN task : task[i] = "success"
          /\ \A i \in DOMAIN trials : trials[i].directory \in hist.fits
    /\ TrialDir("final") \in hist.fits =>
          /\ Rank(pc) >= 7
          /\ final # NoTrial
          /\ hist.read # {}

\* C9: a run goes through the states in their order, never back to a state
\* it has left, with the barriers of C9_Barriers between them.
C9_StatesInOrder ==
    /\ []C9_Barriers
    /\ [][Rank(pc') >= Rank(pc)]_vars

C9_Witness ==
    /\ pc = "done"
    /\ numTrials = 2
    /\ celery

\* C10: under the distributed strategy the controller is not past
\* asyncResults.get(), in getTopTen or later or aborted with the error of a
\* trial, while a task of the group is pending or running, and getTopTen
\* has read no results file while one is.
C10_JoinBarrier ==
    (celery /\ (Rank(pc) >= 6 \/ hist.read # {})) =>
        \A i \in DOMAIN task : task[i] \notin {"pending", "running"}

\* The MaxEnt run of trial i has failed: it raised, or it ended and left no
\* results file in the directory of the trial.
FitFailed(i) ==
    \/ task[i] = "failure"
    \/ task[i] = "success" /\ ~Exists(fs, ResultsFile(trials[i]))

\* The results files of all the trials of the run.
AllResultsFiles == {ResultsFile(trials[i]) : i \in DOMAIN trials}

\* C11: the ensemble is all-or-nothing: when the MaxEnt run of some trial
\* has failed or left no results file, the run is not past aggregation (it
\* has no ranking, stages no final trial, is not done), and a ranking is
\* only ever computed from the results files of all the trials.
C11_AllOrNothing ==
    /\ (\E i \in DOMAIN task : FitFailed(i)) =>
          /\ pc \notin {"prepareFinal", "runFinal", "done"}
          /\ hist.ranking = <<>>
    /\ hist.ranking # <<>> => hist.read = AllResultsFiles

\* The results file of a trial is missing, or has no header line to read.
Unreadable(f, trial) ==
    \/ ~Exists(f, ResultsFile(trial))
    \/ f[ResultsFile(trial)].kind # "csv"

UnreadableTrials == {i \in DOMAIN trials : Unreadable(fs, trials[i])}

\* getTopTen has been called and has returned or raised.
AggregationEnded == pc \in {"prepareFinal", "aborted"}

\* The error _compileContributions raises for a results file it cannot read.
ParseError == "RuntimeError"

\* C12: aggregation fails with the parse error that names the results file
\* of a trial whenever the results file of some trial, at any place in the
\* list, is missing or has no header, and returns a ranking only when the
\* results file of every trial is there with a header.
C12_ParseErrorForEveryTrial ==
    AggregationEnded =>
        /\ UnreadableTrials # {} =>
              /\ pc = "aborted"
              /\ err = ParseError
              /\ \E i \in UnreadableTrials :
                    GetTopTen(fs, trials).file = ResultsFile(trials[i])
        /\ pc = "prepareFinal" => UnreadableTrials = {}

\* The trials whose MaxEnt run a worker is executing.
RunningFits == {i \in DOMAIN task : task[i] = "running"}

\* C13: under the distributed strategy no more MaxEnt runs of trials are
\* executing at a time than the numProcs the request was constructed with.
C13_PoolWidth ==
    celery => Cardinality(RunningFits) <= numProcs

\* Path q is inside directory dir.
Inside(q, dir) == Len(q) > Len(dir) /\ SubSeq(q, 1, Len(dir)) = dir

\* The identifiers of the trials of the run, and of the final one.
TrialIds == {Str(i) : i \in 1 .. numTrials} \cup {"final"}

\* The paths a step creates or changes the content of.
Written == {q \in DOMAIN fs' : q \notin DOMAIN fs \/ fs'[q] # fs[q]}

\* C14 in a state: different trial identifiers have different directories,
\* none inside another or inside the pool; each _runOneTrial task was
\* started with the maxent.jar inside the directory of its own trial.
C14_OwnDirectories ==
    /\ \A a, b \in TrialIds :
          a # b => /\ TrialDir(a) # TrialDir(b)
                   /\ ~Inside(TrialDir(a), TrialDir(b))
    /\ \A a \in TrialIds :
          ~Inside(TrialDir(a), AscDir) /\ ~Inside(TrialDir(a), MerraDir)
    /\ \A r \in hist.jars :
          /\ Inside(r.jar, r.directory)
          /\ \A i \in DOMAIN trials :
                Inside(r.jar, trials[i].directory) =>
                    r.directory = trials[i].directory

\* C14 in a step: the MaxEnt run of a trial that ends has written inside
\* the directory of its trial only: nothing in the directory of another
\* trial, nothing in the pool of images; and no file has gone.
C14_OwnWrites ==
    \A i \in DOMAIN task :
        (task[i] = "running" /\ task'[i] # "running") =>
            /\ DOMAIN fs \subseteq DOMAIN fs'
            /\ \A q \in Written :
                  /\ Inside(q, trials[i].directory)
                  /\ \A j \in DOMAIN trials :
                        j # i => ~Inside(q, trials[j].directory)
                  /\ ~Inside(q, AscDir) /\ ~Inside(q, MerraDir)

\* C14: trials are isolated, in every interleaving of the distributed runs.
C14_TrialsIsolated ==
    /\ []C14_OwnDirectories
    /\ [][C14_OwnWrites]_vars

C14_Witness ==
    /\ celery
    /\ task = <<"success", "running">>
    /\ Exists(fs, ResultsFile(trials[1]))
    /\ Cardinality(hist.jars) = 2

\* The workspaces of the trials directory: the paths directly inside it.
Workspaces(f) ==
    {q \in DOMAIN f : Len(q) = Len(TrialsDir) + 1 /\ Inside(q, TrialsDir)}

\* The workspaces a run of numTrials trials is to leave.
ExpectedWorkspaces ==
    {<<"out", "trials", "trial-" \o a>> : a \in TrialIds}

\* C15 in a state: a run that is done has left exactly the directories
\* trial-1 .. trial-numTrials and trial-final in the trials directory, the
\* i-th of them holding the i-th trial of the plan.
C15_WorkspacesAtDone ==
    pc = "done" =>
        /\ Workspaces(fs) = ExpectedWorkspaces
        /\ \A q \in Workspaces(fs) : fs[q] = Dir
        /\ Len(trials) = numTrials
        /\ \A i \in DOMAIN trials :
              /\ trials[i].directory = <<"out", "trials", "trial-" \o Str(i)>>
              /\ trials[i].images
                     = TrialPredictors(images, listOfIndexesInEachTrial[i])
        /\ final.directory = <<"out", "trials", "trial-final">>

\* C15: a run on an empty output directory that reaches the end has made
\* one workspace per planned trial and the final one, and no step of a run
\* removes a workspace.
C15_Workspaces ==
    /\ []C15_WorkspacesAtDone
    /\ [][Workspaces(fs) \subseteq Workspaces(fs')]_vars

C15_Witness ==
    /\ pc = "done"
    /\ ~celery
    /\ numTrials = 2
    /\ Cardinality(Workspaces(fs)) = 3

\* The output directory the request is constructed with is missing or is not
\* a directory.  (No step of a run changes what is at that path.)
BadOutputDirectory ==
    ~Exists(fs, OutputDirectory) \/ fs[OutputDirectory] # Dir

\* C16: constructing the request with an output directory that is missing
\* or not a directory fails with an error; nothing is created (no asc, merra
\* or trials directory, no file at all) and no later step of the run is
\* taken.
C16_BadOutputDirectory ==
    BadOutputDirectory =>
        /\ pc \in {"init", "aborted"}
        /\ pc = "aborted" => err # NoError
        /\ fs \in {InitialFs("missing"), InitialFs("file")}
        /\ ~Exists(fs, AscDir) /\ ~Exists(fs, MerraDir) /\ ~Exists(fs, TrialsDir)
        /\ images = <<>> /\ listOfIndexesInEachTrial = <<>> /\ trials = <<>>
        /\ hist = NoHistory

C16_Witness ==
    /\ pc = "aborted"
    /\ ~Exists(fs, OutputDirectory)
    /\ err = "TypeError"

\* The _runOneTrial task of trial i has been started by a worker.
FitStarted(i) == task[i] \in {"running", "success", "failure"}

\* C17: under the distributed strategy the MaxEnt run of a trial is started
\* only once the directory of the trial holds its copy of maxent.jar, it is
\* started with that copy, and no two runs are started with the same file
\* or with the jar of the installation.
C17_OwnArtifact ==
    celery =>
        /\ \A i \in DOMAIN task :
              FitStarted(i) =>
                  LET jar == <<"out", "trials", "trial-" \o Str(i), "maxent.jar">>
                  IN  /\ Exists(fs, jar)
                      /\ fs[jar] = fs[MAX_ENT_JAR]
                      /\ [directory |-> trials[i].directory, jar |-> jar]
                             \in hist.jars
        /\ \A r1, r2 \in hist.jars :
              r1.directory # r2.directory => r1.jar # r2.jar
        /\ \A r \in hist.jars : r.jar # MAX_ENT_JAR

C17_Witness ==
    /\ celery
    /\ task = <<"running", "running">>
    /\ Cardinality(hist.jars) = 2
    /\ \A i \in DOMAIN trials : Exists(fs, MaxEntJarOf(trials[i]))

\* The master pool of predictors: the prepared images of the run.
MasterPool == Range(images)

\* C18: every image getTopTen returns for a ranked predictor is an image of
\* the master pool, the prepared image of that predictor, and so is every
\* image staged in the final trial.
C18_TopTenFromMasterPool ==
    pc \in {"prepareFinal", "runFinal", "done"} =>
        /\ \A i \in DOMAIN topTen :
              /\ topTen[i] \in MasterPool
              /\ VarOf(topTen[i]) = KeyText(hist.ranking[i].key)
        /\ \A j \in DOMAIN final.images : final.images[j] \in MasterPool

\* prepareOneTrial has returned a Trial.
StageReturned == pc \in {"stage2", "staged"} /\ err = NoError

\* C19: the Trial prepareOneTrial returns refers to the workspace of the
\* trial only: its observation file has the species of the request and a
\* path inside the trial directory, and its images are, in the order of the
\* indexes given, the copies staged in the asc directory of the trial.
C19_TrialRefersToWorkspace ==
    StageReturned =>
        LET trial == trials[1]
            idxs  == listOfIndexesInEachTrial[1]
        IN  /\ trial.directory = <<"out", "trials", "trial-" \o hist.trialNum>>
            /\ trial.obsFile.species = ObservationFile.species
            /\ Inside(trial.obsFile.filePath, trial.directory)
            /\ Len(trial.images) = Len(idxs)
            /\ \A j \in DOMAIN trial.images :
                  /\ BaseName(trial.images[j]) = BaseName(images[idxs[j] + 1])
                  /\ trial.images[j]
                         = Join(Join(trial.directory, "asc"),
                                BaseName(images[idxs[j] + 1]))
                  /\ Exists(fs, trial.images[j])

\* The ranking getTopTen computes from the results files of a list of trials.
RankingOf(trialList) == GetTopTen(fs, trialList).ranking

\* C20: under the distributed strategy the ranking is the one of the trials
\* in the order of the plan with the results files they have left, whatever
\* the order in which their MaxEnt runs ended.
C20_CompletionOrderIrrelevant ==
    (celery /\ pc \in {"prepareFinal", "runFinal", "done"}) =>
        /\ Range(hist.order) = DOMAIN trials
        /\ hist.ranking = RankingOf(trials)
        /\ hist.read \subseteq AllResultsFiles

\* Trial 2 ended before trial 1, and the two have left results files that
\* give different rankings.
C20_Witness ==
    /\ celery
    /\ pc = "prepareFinal"
    /\ hist.order = <<2, 1>>
    /\ RankingOf(<<trials[2]>>) # RankingOf(<<trials[1]>>)
    /\ RankingOf(<<trials[2]>>) # <<>>

\* Something the run depends on has failed: the output directory is bad,
\* the pool is too small, the MaxEnt run of a trial or of the final trial
\* has failed, or aggregation has (no results file to read, or no trial).
RunFailed ==
    \/ BadOutputDirectory
    \/ images # <<>> /\ InsufficientImages(Len(images))
    \/ \E i \in DOMAIN task : FitFailed(i)
    \/ pc = "aborted" /\ err = "MaxEntError"
    \/ pc = "aborted" /\ numTrials = 0 /\ err = "AttributeError"

\* The MaxEnt run of some trial has not returned.
FitOutstanding ==
    \E i \in DOMAIN task : task[i] \in {"none", "pending", "running"}

\* The controller is in runTrials.
Executing == pc \in {"runTrials", "get"}

\* C21, no timeout: the controller leaves runTrials for aggregation only
\* when every MaxEnt run has returned; while one has not, it stays in
\* runTrials (unless another has raised, which ends the run), and it is in
\* aggregation or past it in no state where a run has not returned.
C21_BlockedWhileOutstanding ==
    (Executing /\ FitOutstanding' /\ ~\E i \in DOMAIN task : task'[i] = "failure")
        => Executing'

\* C21: under fair scheduling a run reaches the end under both strategies
\* unless something it depends on fails; and there is no timeout: a MaxEnt
\* run that does not return keeps the controller in runTrials.
C21_EventuallyDone ==
    /\ <>(pc = "done" \/ RunFailed)
    /\ [][C21_BlockedWhileOutstanding]_vars
    /\ [](pc \in {"getTopTen", "prepareFinal", "runFinal", "done"}
              => ~FitOutstanding)

C21_Witness ==
    /\ pc = "done"
    /\ celery
    /\ numTrials = 2
    /\ hist.order = <<2, 1>>
    /\ ~RunFailed

=============================================================================
